---------------------------- MODULE Spec2Model ----------------------------
(***************************************************************************)
(* Model of .github/workflows/generate_notebook_list.py: the notebook      *)
(* catalog builder (metadata merge, image cascade, title fallback, link    *)
(* sanitation and the catalog walk).                                       *)
(*                                                                         *)
(* Text is a sequence of atoms.  An atom is one character ("_", "/", ".",  *)
(* "A", ...) or an indivisible run of lowercase letters and digits that    *)
(* none of the program's patterns can split ("notebooks", "venv", ...).    *)
(***************************************************************************)
EXTENDS Integers, Sequences, FiniteSets, TLC

VARIABLES
    pc,          \* position of the run under check
    error,       \* the call whose exception ended the run, or "none"
    url,         \* myst_url_sanitation: argument
    cut_url,     \* myst_url_sanitation: returned value
    doc,         \* the notebook file being read
    nb,          \* the parsed notebook handed to a resolver
    meta,        \* extract_notebook_metadata: returned mapping
    image,       \* extract_image_with_fallback: outcome
    title,       \* extract_title_from_first_header: returned value
    tree,        \* the files os.walk yields: local tree, submodule trees
    todo,        \* what is left of the walk under way
    catalog,     \* collect_notebooks: the records appended so far
    previews     \* the preview files written under OUTPUT_DIR

vars == <<pc, error, url, cut_url, doc, nb, meta, image, title, tree, todo,
          catalog, previews>>

resolverVars == <<doc, nb, meta, image, title>>
catalogVars == <<error, tree, todo, catalog, previews>>
slugVars == <<url, cut_url>>

\* Python's None, and a value that is not None
None == [none |-> TRUE]
Some(x) == [value |-> x]

---------------------------------------------------------------------------
(* Python str helpers on atom sequences                                    *)

RECURSIVE Replace(_, _, _)
\* str.replace(old, new): left to right, non-overlapping
Replace(s, old, new) ==
    IF Len(s) < Len(old) THEN s
    ELSE IF SubSeq(s, 1, Len(old)) = old
         THEN new \o Replace(SubSeq(s, Len(old) + 1, Len(s)), old, new)
         ELSE <<s[1]>> \o Replace(Tail(s), old, new)

LowerAtom(c) == IF c = "A" THEN "a" ELSE IF c = "B" THEN "b" ELSE c

\* str.lower()
Lower(s) == [i \in 1..Len(s) |-> LowerAtom(s[i])]

\* index of the last "/" of s, 0 when there is none
LastSlash(s) ==
    LET I == {i \in 1..Len(s) : s[i] = "/"}
    IN  IF I = {} THEN 0 ELSE CHOOSE i \in I : \A j \in I : j <= i

\* s[:n]
Take(s, n) == SubSeq(s, 1, IF Len(s) < n THEN Len(s) ELSE n)

Whitespace == {" ", "\t"}

RECURSIVE LStrip(_)
LStrip(s) == IF s # <<>> /\ s[1] \in Whitespace THEN LStrip(Tail(s)) ELSE s

RECURSIVE RStrip(_)
RStrip(s) ==
    IF s # <<>> /\ s[Len(s)] \in Whitespace THEN RStrip(SubSeq(s, 1, Len(s) - 1)) ELSE s

\* str.strip()
Strip(s) == RStrip(LStrip(s))

---------------------------------------------------------------------------
(* myst_url_sanitation                                                     *)

SegmentLimit == 50

CleanUrl(u) ==
    Lower(Replace(Replace(Replace(Replace(Replace(Replace(Replace(u,
        <<"_", "-", "_">>, <<"-">>),
        <<"_">>, <<"-">>),
        <<" ">>, <<"-">>),
        <<".", ".">>, <<>>),
        <<":">>, <<>>),
        <<"'">>, <<>>),
        <<"\"">>, <<>>))

MystUrlSanitation(u) ==
    LET clean_url == CleanUrl(u)
        k == LastSlash(clean_url)
    IN  SubSeq(clean_url, 1, k)
            \o Take(SubSeq(clean_url, k + 1, Len(clean_url)), SegmentLimit)

---------------------------------------------------------------------------
(* Link sanitation, run on a path and then on its own output               *)

MaxUrlLen == 3
PadLen == 49

UrlAtoms == {"A", "b", "_", "-", " ", ".", ":", "'", "/"}

RECURSIVE SeqsUpTo(_, _)
SeqsUpTo(S, n) ==
    IF n = 0 THEN {<<>>}
    ELSE LET T == SeqsUpTo(S, n - 1)
         IN  T \cup {Append(t, a) : t \in {x \in T : Len(x) = n - 1}, a \in S}

Pad(n) == [i \in 1..n |-> "y"]

\* short paths, and the same paths behind a long run that reaches the limit
UrlInputs ==
    {p \o s : p \in {<<>>, Pad(PadLen)}, s \in SeqsUpTo(UrlAtoms, MaxUrlLen)}

SlugInit ==
    /\ pc = "slug_start"
    /\ url \in UrlInputs
    /\ cut_url = None
    /\ doc = None /\ nb = None /\ meta = None /\ image = None /\ title = None
    /\ error = "none" /\ tree = None /\ todo = None /\ catalog = <<>> /\ previews = None

Sanitize ==
    /\ pc = "slug_start"
    /\ cut_url' = MystUrlSanitation(url)
    /\ pc' = "slug_once"
    /\ UNCHANGED <<url, resolverVars, catalogVars>>

SanitizeOutput ==
    /\ pc = "slug_once"
    /\ url' = cut_url
    /\ cut_url' = MystUrlSanitation(cut_url)
    /\ pc' = "slug_twice"
    /\ UNCHANGED <<resolverVars, catalogVars>>

SlugNext == Sanitize \/ SanitizeOutput

SpecSlug == SlugInit /\ [][SlugNext]_vars

\* last "/"-delimited segment
LastSegment(s) == SubSeq(s, LastSlash(s) + 1, Len(s))

HasPair(s, a, b) == \E i \in 1..(Len(s) - 1) : s[i] = a /\ s[i + 1] = b

\* C6: sanitising the sanitiser's own output changes nothing, the output
\* holds no "..", colon, quote, underscore, space or uppercase character,
\* and its last segment has at most 50 characters.
C6_Idempotent ==
    /\ pc = "slug_twice" => cut_url = url
    /\ pc = "slug_once" =>
          /\ ~HasPair(cut_url, ".", ".")
          /\ \A i \in 1..Len(cut_url) : cut_url[i] \notin {":", "'", "\"", "_", " ", "A", "B"}
          /\ Len(LastSegment(cut_url)) <= SegmentLimit

---------------------------------------------------------------------------
(* Notebook documents (nbformat): cells in order; a cell has a cell_type,  *)
(* a source (its lines, each a text) and, for code cells, outputs.  The    *)
(* front-matter block that opens a markdown cell is kept apart from the    *)
(* lines that follow it.                                                   *)

NoFrontmatter == [kind |-> "absent"]

MarkdownCell(fm, lines) ==
    [cell_type |-> "markdown", frontmatter |-> fm, source |-> lines, outputs |-> <<>>]

CodeCell(lines, outs) ==
    [cell_type |-> "code", frontmatter |-> NoFrontmatter, source |-> lines, outputs |-> outs]

EmptyTags == [k \in {} |-> <<>>]

Notebook(tags, cells) == [tags |-> tags, cells |-> cells]

\* what every code cell of the bounded notebooks holds as source: a comment
\* and an image link, which no resolver may read
CodeSource == << <<"#", " ", "t">>, <<"!", "[", "]", "(", "B", ")">> >>

Skip == [kind |-> "skip"]
LineItem(l, brk) == [kind |-> "line", line |-> l, brk |-> brk]
OutputItem(o, brk) == [kind |-> "output", out |-> o, brk |-> brk]

RECURSIVE Layout(_, _, _)
\* the cells laid out from the items f[i..]: a line goes to the markdown
\* cell under way ("same") or opens a markdown cell ("new"); an output
\* goes to the code cell under way or opens a code cell; no output (None)
\* opens a code cell without outputs
Layout(f, i, acc) ==
    IF i > Len(f) THEN acc
    ELSE LET it == f[i]
             last == IF acc = <<>> THEN "none" ELSE acc[Len(acc)].cell_type
         IN  IF it.kind = "skip" THEN Layout(f, i + 1, acc)
             ELSE IF it.kind = "line"
             THEN IF it.brk = "same" /\ last = "markdown"
                  THEN Layout(f, i + 1,
                              [acc EXCEPT ![Len(acc)].source = Append(@, it.line)])
                  ELSE Layout(f, i + 1,
                              Append(acc, MarkdownCell(NoFrontmatter, <<it.line>>)))
             ELSE IF it.out = None
             THEN Layout(f, i + 1, Append(acc, CodeCell(CodeSource, <<>>)))
             ELSE IF it.brk = "same" /\ last = "code"
                  THEN Layout(f, i + 1,
                              [acc EXCEPT ![Len(acc)].outputs = Append(@, it.out)])
                  ELSE Layout(f, i + 1, Append(acc, CodeCell(CodeSource, <<it.out>>)))

\* the cells with the front-matter block fm opening the first cell
WithFrontmatter(fm, cells) ==
    IF fm = NoFrontmatter THEN cells
    ELSE IF cells # <<>> /\ cells[1].cell_type = "markdown"
         THEN [cells EXCEPT ![1].frontmatter = fm]
         ELSE <<MarkdownCell(fm, <<>>)>> \o cells

---------------------------------------------------------------------------
(* extract_title_from_first_header                                         *)

\* the pattern written ^\s*#+\s+(.*): a heading of any level matches
HeaderMatchesAnyLevel(line) ==
    LET s == LStrip(line)
    IN  \E n \in 1..Len(s) :
            /\ \A i \in 1..n : s[i] = "#"
            /\ Len(s) > n
            /\ s[n + 1] \in Whitespace

\* re.match(r'^\s*#\s+(.*)', line): is there a match
HeaderMatches(line) ==
    LET s == LStrip(line)
    IN  /\ Len(s) >= 2
        /\ s[1] = "#"
        /\ s[2] \in Whitespace

\* match.group(1).strip()
HeaderGroup(line) == Strip(Tail(LStrip(line)))

RECURSIVE FirstHeaderOfLines(_)
\* the inner loop: the first matching line of one cell's source
FirstHeaderOfLines(lines) ==
    IF lines = <<>> THEN None
    ELSE IF HeaderMatches(lines[1]) THEN Some(HeaderGroup(lines[1]))
         ELSE FirstHeaderOfLines(Tail(lines))

RECURSIVE FirstHeaderOfCells(_)
\* the outer loop: markdown cells in order, first match returns
FirstHeaderOfCells(cells) ==
    IF cells = <<>> THEN None
    ELSE LET found == IF cells[1].cell_type = "markdown"
                      THEN FirstHeaderOfLines(cells[1].source)
                      ELSE None
         IN  IF found # None THEN found ELSE FirstHeaderOfCells(Tail(cells))

ExtractTitleFromFirstHeader(n) == FirstHeaderOfCells(n.cells)

---------------------------------------------------------------------------
(* Title fallback, run on bounded notebooks                                *)

MaxItems == 3

TitleLines ==
    { <<"#", " ", "t">>,                  \* "# t"
      <<"#", "#", " ", "u">>,             \* "## u"
      <<" ", "#", " ", " ", "u", " ">>,   \* " #  u "
      <<"u", " ", "#", " ", "t">>,        \* "u # t"
      <<"#", "t">>,                       \* "#t"
      <<"#", " ">> }                      \* "# "

TitleItems ==
    {Skip, OutputItem(None, "new")}
        \cup {LineItem(l, b) : l \in TitleLines, b \in {"same", "new"}}

TitleInit ==
    /\ pc = "title_start"
    /\ \E f \in [1..MaxItems -> TitleItems] :
           nb = Notebook(EmptyTags, Layout(f, 1, <<>>))
    /\ title = None
    /\ doc = None /\ meta = None /\ image = None
    /\ url = None /\ cut_url = None
    /\ error = "none" /\ tree = None /\ todo = None /\ catalog = <<>> /\ previews = None

ExtractTitle ==
    /\ pc = "title_start"
    /\ title' = ExtractTitleFromFirstHeader(nb)
    /\ pc' = "title_done"
    /\ UNCHANGED <<doc, nb, meta, image, slugVars, catalogVars>>

TitleNext == ExtractTitle

SpecTitle == TitleInit /\ [][TitleNext]_vars

\* the lines of the markdown cells, in document order
RECURSIVE NarrativeLines(_)
NarrativeLines(cells) ==
    IF cells = <<>> THEN <<>>
    ELSE (IF cells[1].cell_type = "markdown" THEN cells[1].source ELSE <<>>)
             \o NarrativeLines(Tail(cells))

\* number of "#" that open the line
RECURSIVE Hashes(_)
Hashes(s) == IF s # <<>> /\ s[1] = "#" THEN 1 + Hashes(Tail(s)) ELSE 0

\* a heading of level n: n "#", whitespace, then the content
IsHeading(line, n) ==
    /\ n >= 1
    /\ Hashes(LStrip(line)) = n
    /\ Len(LStrip(line)) > n
    /\ LStrip(line)[n + 1] \in Whitespace

HeadingContent(line) ==
    LET s == LStrip(line) IN Strip(SubSeq(s, Hashes(s) + 1, Len(s)))

\* what a scan for the first heading among levels L must return
FirstHeading(n, L) ==
    LET ls == NarrativeLines(n.cells)
        H == {i \in 1..Len(ls) : \E k \in L : IsHeading(ls[i], k)}
    IN  IF H = {} THEN None
        ELSE Some(HeadingContent(ls[CHOOSE i \in H : \A j \in H : i <= j]))

MaxLevel == 6

\* C7 as stated: the title is the content of the first heading of any
\* level, and is null only when the narrative cells hold no heading.
C7_FirstHeadingAnyLevel ==
    pc = "title_done" => title = FirstHeading(nb, 1..MaxLevel)

\* C7 amended: the title is the content of the first level-1 heading (one
\* "#", whitespace, content), and is null only when there is none.
C7_FirstLevelOneHeading ==
    pc = "title_done" => title = FirstHeading(nb, {1})

C7_Witness ==
    /\ pc = "title_done"
    /\ title # None
    /\ \E i \in 1..Len(NarrativeLines(nb.cells)) :
           /\ IsHeading(NarrativeLines(nb.cells)[i], 2)
           /\ \E j \in (i + 1)..Len(NarrativeLines(nb.cells)) :
                  IsHeading(NarrativeLines(nb.cells)[j], 1)

---------------------------------------------------------------------------
(* extract_notebook_metadata                                               *)
(* A notebook file is [readable, nb]: nbformat.read raises on a file that  *)
(* is not readable.  yaml.safe_load of a front-matter block gives a        *)
(* mapping, a sequence, None (an empty block) or raises (malformed).       *)

NotebookFile(readable, n) == [readable |-> readable, nb |-> n]

FrontmatterMapping(m) == [kind |-> "mapping", map |-> m]
FrontmatterSequence == [kind |-> "sequence"]
FrontmatterEmpty == [kind |-> "empty"]
FrontmatterMalformed == [kind |-> "malformed"]

KnownKeys ==
    <<"title", "description", "domain", "subtheme", "service", "platform",
      "sensor", "tags", "image">>

EmptyMap == [k \in {} |-> <<>>]

\* a dict, or the list that a front-matter sequence is copied to
Dict(m) == [type |-> "dict", map |-> m]
List == [type |-> "list", map |-> EmptyMap]

RECURSIVE FillMissingKeys(_, _, _)
\* the overlay the other way round: a key the front-matter has is kept
FillMissingKeys(merged, tags, keys) ==
    IF keys = <<>> THEN merged
    ELSE LET key == keys[1]
             next == IF key \in DOMAIN tags /\ key \notin DOMAIN merged
                     THEN [k \in DOMAIN merged \cup {key} |->
                              IF k = key THEN tags[key] ELSE merged[k]]
                     ELSE merged
         IN  FillMissingKeys(next, tags, Tail(keys))

RECURSIVE OverrideKeys(_, _, _)
\* for key in [...]: if key in tags_metadata: merged[key] = tags_metadata[key]
OverrideKeys(merged, tags, keys) ==
    IF keys = <<>> THEN merged
    ELSE LET key == keys[1]
             next == IF key \in DOMAIN tags
                     THEN [k \in DOMAIN merged \cup {key} |->
                              IF k = key THEN tags[key] ELSE merged[k]]
                     ELSE merged
         IN  OverrideKeys(next, tags, Tail(keys))

MetadataFailed == [meta |-> Dict(EmptyMap), nb |-> None]

ExtractNotebookMetadata(d) ==
    IF ~d.readable THEN MetadataFailed
    ELSE LET n == d.nb
             fm == IF n.cells # <<>> /\ n.cells[1].cell_type = "markdown"
                   THEN n.cells[1].frontmatter
                   ELSE NoFrontmatter
             known == {KnownKeys[i] : i \in 1..Len(KnownKeys)}
         IN  CASE fm.kind = "absent" ->
                    [meta |-> Dict(OverrideKeys(EmptyMap, n.tags, KnownKeys)), nb |-> Some(n)]
               [] fm.kind = "mapping" ->
                    [meta |-> Dict(OverrideKeys(fm.map, n.tags, KnownKeys)), nb |-> Some(n)]
               [] fm.kind = "sequence" ->
                    \* list.copy(); merged[key] = ... raises TypeError
                    IF known \cap DOMAIN n.tags # {} THEN MetadataFailed
                    ELSE [meta |-> List, nb |-> Some(n)]
               [] OTHER -> MetadataFailed   \* yaml error, or None.copy()

---------------------------------------------------------------------------
(* The files, the network and the codecs the image cascade reads           *)

\* image bytes: "junk" is what Image.open cannot decode
Decodes(bytes) == bytes # "junk"

\* the image files every notebook directory holds; "M" is in none
DiskImages == (<<"A">> :> "img1") @@ (<<"B">> :> "img2") @@ (<<"X">> :> "junk")

\* os.path.normpath(os.path.join(notebook_dir, rel)), relative to notebook_dir
Normpath(rel) ==
    IF Len(rel) >= 2 /\ rel[1] = "." /\ rel[2] = "/" THEN SubSeq(rel, 3, Len(rel)) ELSE rel

Exists(path) == path \in DOMAIN DiskImages

\* requests.get(url, timeout=10) then raise_for_status(): the content, or None
\* when the request fails
Fetch(u) ==
    IF u = <<"https://", "h1">> THEN Some("img1")
    ELSE IF u = <<"https://", "hj">> THEN Some("junk")
    ELSE None

\* base64.b64decode: the bytes, or None when it raises binascii.Error
B64Decode(encoded) ==
    IF encoded = <<"P1">> THEN Some("img1")
    ELSE IF encoded = <<"P2">> THEN Some("img2")
    ELSE IF encoded = <<"PJ">> THEN Some("junk")
    ELSE None

---------------------------------------------------------------------------
(* process_and_save_image, process_and_save_image_from_bytes               *)

TargetWidth == 300

\* notebook_rel_path.replace("/", "_").replace(".ipynb", "_preview.png")
PreviewName(notebook_rel_path) ==
    Replace(Replace(notebook_rel_path, <<"/">>, <<"_">>),
            <<".ipynb">>, <<"_", "preview", ".png">>)

\* what a call did: the value returned, the preview file written, and which
\* step of the cascade (0: none) chose which source
Outcome(raised, ret, saved, step, ref, at) ==
    [raised |-> raised, ret |-> ret, saved |-> saved, step |-> step, ref |-> ref, at |-> at]

\* the preview written from bytes for a notebook: resized to target_width
Preview(bytes, notebook_rel_path, target_width) ==
    [name |-> PreviewName(notebook_rel_path), bytes |-> bytes,
     width |-> target_width, owner |-> notebook_rel_path]

\* Some(preview) when the image decodes, None when Image.open raises
ProcessAndSaveImageFromBytes(image_bytes, notebook_rel_path, target_width) ==
    IF Decodes(image_bytes)
    THEN Some(Preview(image_bytes, notebook_rel_path, target_width))
    ELSE None

ProcessAndSaveImage(image_path, notebook_rel_path, target_width) ==
    IF Decodes(DiskImages[image_path])
    THEN Some(Preview(DiskImages[image_path], notebook_rel_path, target_width))
    ELSE None

\* os.path.join("build/_assets/previews", image_name)
ReturnedPath(preview) == <<"build/_assets/previews/">> \o preview.name

Returned(preview, step, ref, at) ==
    Outcome(FALSE, Some(ReturnedPath(preview)), Some(preview), step, ref, at)

NoPosition == <<0, 0>>

---------------------------------------------------------------------------
(* extract_image_with_fallback                                             *)

\* the first i >= from with s[i] = a, 0 when there is none
IndexOf(s, a, from) ==
    LET I == {i \in from..Len(s) : s[i] = a}
    IN  IF I = {} THEN 0 ELSE CHOOSE i \in I : \A j \in I : i <= j

\* the first i >= from with s[i] = a and s[i + 1] = b, 0 when there is none
IndexOfPair(s, a, b, from) ==
    LET I == {i \in from..(Len(s) - 1) : s[i] = a /\ s[i + 1] = b}
    IN  IF I = {} THEN 0 ELSE CHOOSE i \in I : \A j \in I : i <= j

\* Priority 1: the image of notebook.metadata.tags.  Some(outcome) when the
\* step returns, None when it falls through to the next step.
Priority1(n, notebook_rel_path, target_width) ==
    IF "image" \notin DOMAIN n.tags THEN None
    ELSE LET metadata_image_url == n.tags["image"]
             scheme == IF metadata_image_url = <<>> THEN "" ELSE metadata_image_url[1]
         IN  IF scheme \notin {"http://", "https://", "data:"}
             THEN LET image_abs_path == Normpath(metadata_image_url)
                  IN  IF Exists(image_abs_path)
                      THEN LET r == ProcessAndSaveImage(image_abs_path,
                                        notebook_rel_path, target_width)
                           IN  IF r # None
                               THEN Some(Returned(r.value, 1, metadata_image_url, NoPosition))
                               ELSE None
                      ELSE None
             ELSE IF scheme \in {"http://", "https://"}
             THEN LET response == Fetch(metadata_image_url)
                  IN  IF response = None THEN None
                      ELSE LET r == ProcessAndSaveImageFromBytes(response.value,
                                        notebook_rel_path, target_width)
                           IN  IF r # None
                               THEN Some(Returned(r.value, 1, metadata_image_url, NoPosition))
                               ELSE None
             ELSE \* header, encoded = metadata_image_url.split(',', 1)
                  LET comma == IndexOf(metadata_image_url, ",", 1)
                  IN  IF comma = 0 THEN None
                      ELSE LET image_bytes ==
                                   B64Decode(SubSeq(metadata_image_url, comma + 1,
                                                    Len(metadata_image_url)))
                           IN  IF image_bytes = None THEN None
                               ELSE LET r == ProcessAndSaveImageFromBytes(image_bytes.value,
                                                 notebook_rel_path, target_width)
                                    IN  IF r # None
                                        THEN Some(Returned(r.value, 1, metadata_image_url,
                                                           NoPosition))
                                        ELSE None

RECURSIVE MdImages(_)
\* re.findall(r'!\[.*?\]\((.*?)\)', line)
MdImages(line) ==
    LET i == IndexOfPair(line, "!", "[", 1)
        j == IF i = 0 THEN 0 ELSE IndexOfPair(line, "]", "(", i + 2)
        k == IF j = 0 THEN 0 ELSE IndexOf(line, ")", j + 2)
    IN  IF k = 0 THEN <<>>
        ELSE <<SubSeq(line, j + 2, k - 1)>> \o MdImages(SubSeq(line, k + 1, Len(line)))

\* re.findall(r':::\{figure\}\s+(.*?)\s*$', line)
MystImages(line) ==
    LET I == {i \in 1..(Len(line) - 1) :
                 line[i] = ":::{figure}" /\ line[i + 1] \in Whitespace}
    IN  IF I = {} THEN <<>>
        ELSE LET i == CHOOSE i \in I : \A j \in I : i <= j
             IN  <<Strip(SubSeq(line, i + 1, Len(line)))>>

RECURSIVE FoundInLines(_)
FoundInLines(lines) ==
    IF lines = <<>> THEN <<>>
    ELSE MdImages(lines[1]) \o MystImages(lines[1]) \o FoundInLines(Tail(lines))

RECURSIVE FoundImages(_)
\* found_images after the loop over nb.cells
FoundImages(cells) ==
    IF cells = <<>> THEN <<>>
    ELSE (IF cells[1].cell_type = "markdown" THEN FoundInLines(cells[1].source) ELSE <<>>)
             \o FoundImages(Tail(cells))

\* found_images[0]: the first match instead of the last
FirstFound(found_images) == found_images[1]

\* found_images[-1]
LastFound(found_images) == found_images[Len(found_images)]

\* Priority 2: the last image of the markdown cells
Priority2(n, notebook_rel_path, target_width) ==
    LET found_images == FoundImages(n.cells)
    IN  IF found_images = <<>> THEN None
        ELSE LET last_image_rel == Strip(LastFound(found_images))
                 image_abs_path == Normpath(last_image_rel)
             IN  IF Exists(image_abs_path)
                 THEN LET r == ProcessAndSaveImage(image_abs_path,
                                   notebook_rel_path, target_width)
                      IN  IF r # None
                          THEN Some(Returned(r.value, 2, last_image_rel, NoPosition))
                          ELSE None
                 ELSE None

NoPng == [png |-> None]
Png(encoded) == [png |-> Some(encoded)]

\* the outputs scanned forward: the index of the first with "image/png"
FirstPngOfOutputs(outputs, j) ==
    LET J == {i \in 1..j : outputs[i].png # None}
    IN  IF J = {} THEN 0 ELSE CHOOSE i \in J : \A k \in J : i <= k

RECURSIVE LastPngOfOutputs(_, _)
\* for output in reversed(outputs): the index of the first with "image/png"
LastPngOfOutputs(outputs, j) ==
    IF j = 0 THEN 0
    ELSE IF outputs[j].png # None THEN j
    ELSE LastPngOfOutputs(outputs, j - 1)

RECURSIVE LastPngOfCells(_, _)
\* for cell in reversed(nb.cells): <<cell, output>> of the first hit
LastPngOfCells(cells, i) ==
    IF i = 0 THEN NoPosition
    ELSE LET j == IF cells[i].cell_type = "code"
                  THEN LastPngOfOutputs(cells[i].outputs, Len(cells[i].outputs))
                  ELSE 0
         IN  IF j # 0 THEN <<i, j>> ELSE LastPngOfCells(cells, i - 1)

\* Priority 3: the last image output of the code cells
Priority3(n, notebook_rel_path, target_width) ==
    LET at == LastPngOfCells(n.cells, Len(n.cells))
    IN  IF at = NoPosition THEN Outcome(FALSE, None, None, 0, <<>>, NoPosition)
        ELSE LET image_bytes == B64Decode(n.cells[at[1]].outputs[at[2]].png.value)
             IN  IF image_bytes = None
                 THEN Outcome(TRUE, None, None, 3, <<>>, at)   \* raised outside the try
                 ELSE LET r == ProcessAndSaveImageFromBytes(image_bytes.value,
                                   notebook_rel_path, target_width)
                      IN  IF r # None THEN Returned(r.value, 3, <<>>, at)
                          ELSE Outcome(FALSE, None, None, 3, <<>>, at)

ExtractImageWithFallback(n, notebook_rel_path, target_width) ==
    LET p1 == Priority1(n, notebook_rel_path, target_width)
        p2 == Priority2(n, notebook_rel_path, target_width)
    IN  IF p1 # None THEN p1.value
        ELSE IF p2 # None THEN p2.value
        ELSE Priority3(n, notebook_rel_path, target_width)

---------------------------------------------------------------------------
(* One notebook resolved as collect_notebooks resolves it: metadata, the   *)
(* second read when the first gave no document, then the image             *)

NotebookPath == <<"notebooks", "/", "n", ".ipynb">>

MdLine(path) == <<"!", "[", "]", "(">> \o path \o <<")">>

Absent == <<"absent">>

\* the mappings from some of the keys K to values of V
PartialMaps(K, V) ==
    {[k \in {x \in K : f[x] # Absent} |-> f[k]] : f \in [K -> V \cup {Absent}]}

ImageTag(u) == IF u = Absent THEN EmptyTags ELSE [k \in {"image"} |-> u]

\* metadata images of every scheme, resolvable and not
HeadImages ==
    { Absent, <<"A">>, <<".", "/", "B">>, <<"M">>, <<"X">>,
      <<"https://", "h1">>, <<"https://", "hj">>, <<"http://", "h404">>,
      <<"data:", "image/png;base64", ",", "P1">>,
      <<"data:", "image/png;base64", ",", "PJ">>,
      <<"data:", "image/png;base64", ",", "PX">>,
      <<"data:", "P1">> }

HeadFrontmatters ==
    { NoFrontmatter,
      FrontmatterMapping([k \in {"image"} |-> <<"B">>]),
      FrontmatterMapping([k \in {"title"} |-> <<"t">>]),
      FrontmatterMalformed }

HeadItems ==
    { Skip, LineItem(MdLine(<<"A">>), "new"), LineItem(MdLine(<<"M">>), "new"),
      OutputItem(Png(<<"P2">>), "new"), OutputItem(Png(<<"PX">>), "new") }

NarrativeImages == {Absent, <<"M">>}

ImageLines ==
    { <<"t">>,
      MdLine(<<"A">>),
      MdLine(<<"M">>),
      MdLine(<<"X">>),
      MdLine(<<"B">>) \o <<" ">> \o MdLine(<<"A">>),
      <<":::{figure}", " ", ".", "/", "B", " ">>,
      MdLine(<<"A">>) \o <<" ", ":::{figure}", " ", "M">> }

NarrativeItems ==
    {Skip, OutputItem(Png(<<"P1">>), "new")}
        \cup {LineItem(l, b) : l \in ImageLines, b \in {"same", "new"}}

OutputImages == {Absent, <<"M">>}

OutputItems ==
    {Skip, OutputItem(None, "new"), LineItem(MdLine(<<"M">>), "new"),
     LineItem(MdLine(<<"X">>), "new")}
        \cup {OutputItem(o, b) :
                 o \in {NoPng, Png(<<"P1">>), Png(<<"P2">>), Png(<<"PJ">>), Png(<<"PX">>)},
                 b \in {"same", "new"}}

MetaKeys == {"title", "image", "author"}
MetaValues == {<<"t">>, <<"u">>}

MetaFrontmatters ==
    {NoFrontmatter, FrontmatterSequence, FrontmatterEmpty, FrontmatterMalformed}
        \cup {FrontmatterMapping(m) : m \in PartialMaps(MetaKeys, MetaValues)}

ResolveInit ==
    /\ pc = "read"
    /\ \/ \E u \in HeadImages, fm \in HeadFrontmatters, f \in [1..MaxItems -> HeadItems] :
              doc = NotebookFile(TRUE,
                        Notebook(ImageTag(u), WithFrontmatter(fm, Layout(f, 1, <<>>))))
       \/ \E u \in NarrativeImages, f \in [1..MaxItems -> NarrativeItems] :
              doc = NotebookFile(TRUE, Notebook(ImageTag(u), Layout(f, 1, <<>>)))
       \/ \E u \in OutputImages, f \in [1..MaxItems -> OutputItems] :
              doc = NotebookFile(TRUE, Notebook(ImageTag(u), Layout(f, 1, <<>>)))
       \/ \E tags \in PartialMaps(MetaKeys, MetaValues), fm \in MetaFrontmatters,
             readable \in BOOLEAN, first \in {"markdown", "code"} :
              doc = NotebookFile(readable,
                        Notebook(tags,
                            IF first = "markdown" THEN <<MarkdownCell(fm, <<>>)>>
                            ELSE <<CodeCell(CodeSource, <<>>), MarkdownCell(fm, <<>>)>>))
    /\ nb = None /\ meta = None /\ image = None /\ title = None
    /\ url = None /\ cut_url = None
    /\ error = "none" /\ tree = None /\ todo = None /\ catalog = <<>> /\ previews = None

\* meta, nb = extract_notebook_metadata(abs_path)
\* if nb is None: nb = nbformat.read(abs_path, as_version=4)
ReadNotebook ==
    /\ pc = "read"
    /\ LET r == ExtractNotebookMetadata(doc)
       IN  /\ meta' = r.meta
           /\ IF r.nb # None
              THEN nb' = r.nb.value /\ pc' = "image" /\ error' = "none"
              ELSE IF doc.readable
              THEN nb' = doc.nb /\ pc' = "image" /\ error' = "none"
              ELSE nb' = None /\ pc' = "resolve_raised" /\ error' = "nbformat.read"
    /\ UNCHANGED <<doc, image, title, slugVars, tree, todo, catalog, previews>>

\* image = extract_image_with_fallback(nb, rel_path)
ResolveImage ==
    /\ pc = "image"
    /\ image' = ExtractImageWithFallback(nb, NotebookPath, TargetWidth)
    /\ IF image'.raised
       THEN pc' = "resolve_raised" /\ error' = "extract_image_with_fallback"
       ELSE pc' = "resolved" /\ error' = "none"
    /\ UNCHANGED <<doc, nb, meta, title, slugVars, tree, todo, catalog, previews>>

ResolveNext == ReadNotebook \/ ResolveImage

SpecResolve == ResolveInit /\ [][ResolveNext]_vars

Resolved == pc \in {"resolved", "resolve_raised"} /\ image # None

\* the bytes an image reference resolves to by its scheme (relative file
\* that exists, successful fetch, decodable data: URI), None when it does not
ResolvesTo(ref) ==
    LET scheme == IF ref = <<>> THEN "" ELSE ref[1]
    IN  IF scheme \in {"http://", "https://"} THEN Fetch(ref)
        ELSE IF scheme = "data:"
        THEN IF IndexOf(ref, ",", 1) = 0 THEN None
             ELSE B64Decode(SubSeq(ref, IndexOf(ref, ",", 1) + 1, Len(ref)))
        ELSE IF Exists(Normpath(ref)) THEN Some(DiskImages[Normpath(ref)])
        ELSE None

\* the result is the preview built from these bytes by this step
BuiltFrom(bytes, step) ==
    /\ ~image.raised
    /\ image.step = step
    /\ image.saved # None
    /\ image.saved.value.bytes = bytes
    /\ image.saved.value.width = TargetWidth
    /\ image.ret = Some(ReturnedPath(image.saved.value))

\* C2: when the merged metadata record has an image that resolves (read
\* here in the claim's favour: resolves to bytes the normalizer accepts),
\* the result is the preview built from it by step 1.
C2_MergedImageWins ==
    (/\ Resolved
     /\ "image" \in DOMAIN meta.map
     /\ ResolvesTo(meta.map["image"]) # None
     /\ Decodes(ResolvesTo(meta.map["image"]).value))
        => BuiltFrom(ResolvesTo(meta.map["image"]).value, 1)

\* the image references of one line: its links in order, then its
\* directive, whose path runs to the end of the line
RefsInLine(line) == MdImages(line) \o MystImages(line)

\* the narrative lines that hold an image reference
RefLines(n) ==
    {i \in 1..Len(NarrativeLines(n.cells)) : RefsInLine(NarrativeLines(n.cells)[i]) # <<>>}

\* the last image reference of the narrative cells in document order
LastReference(n) ==
    LET i == CHOOSE i \in RefLines(n) : \A j \in RefLines(n) : j <= i
        refs == RefsInLine(NarrativeLines(n.cells)[i])
    IN  Strip(refs[Len(refs)])

\* C3 as stated: when step 1 yields nothing and the narrative cells hold
\* image references, the last one is the source of step 2, and if its file
\* exists the result is built from it.
C3_LastReferenceBuilt ==
    (/\ Resolved
     /\ image.step # 1
     /\ RefLines(nb) # {}
     /\ Exists(Normpath(LastReference(nb))))
        => /\ BuiltFrom(DiskImages[Normpath(LastReference(nb))], 2)
           /\ image.ref = LastReference(nb)

\* C3 amended: when step 1 yields nothing and the narrative cells hold
\* image references, the result is built by step 2 from the last reference
\* if its file exists and the normalizer accepts it; step 2 builds from no
\* other reference, and from none when that file is missing or rejected.
C3_LastReferenceWins ==
    (Resolved /\ image.step # 1 /\ RefLines(nb) # {})
        => LET last == LastReference(nb)
           IN  IF Exists(Normpath(last)) /\ Decodes(DiskImages[Normpath(last)])
               THEN BuiltFrom(DiskImages[Normpath(last)], 2) /\ image.ref = last
               ELSE image.step # 2

C3_Witness ==
    /\ Resolved
    /\ BuiltFrom("img1", 2)
    /\ Cardinality(RefLines(nb)) >= 2
    /\ \E i \in RefLines(nb) :
           /\ Exists(Normpath(Strip(RefsInLine(NarrativeLines(nb.cells)[i])[1])))
           /\ Strip(RefsInLine(NarrativeLines(nb.cells)[i])[1]) # LastReference(nb)

\* positions <<cell, output>> of the image/png outputs of the code cells
PngPositions(n) ==
    {<<i, j>> \in (1..Len(n.cells)) \X (1..MaxItems) :
        /\ n.cells[i].cell_type = "code"
        /\ j <= Len(n.cells[i].outputs)
        /\ n.cells[i].outputs[j].png # None}

Later(p, q) == p[1] > q[1] \/ (p[1] = q[1] /\ p[2] > q[2])

\* C4: when steps 1 and 2 yield nothing, step 3 chooses an image/png
\* output of a code cell that no image/png output follows in document
\* order (and chooses none only when there is none).
C4_LastOutputChosen ==
    (Resolved /\ image.step \notin {1, 2})
        => IF PngPositions(nb) = {} THEN image.step = 0 /\ image.ret = None
           ELSE /\ image.step = 3
                /\ image.at \in PngPositions(nb)
                /\ \A q \in PngPositions(nb) : ~Later(q, image.at)
                /\ image.saved # None =>
                       Some(image.saved.value.bytes) =
                           B64Decode(nb.cells[image.at[1]].outputs[image.at[2]].png.value)

C4_Witness ==
    /\ Resolved
    /\ image.step = 3
    /\ image.ret # None
    /\ image.at[2] = 2
    /\ \E q \in PngPositions(nb) : q[1] < image.at[1]

\* C5: the cascade never raises to its caller, and returns null only when
\* no step has a source that resolves to bytes the normalizer accepts.
C5_NeverRaises ==
    Resolved =>
        /\ ~image.raised
        /\ image.ret = None =>
              /\ "image" \in DOMAIN nb.tags =>
                     \/ ResolvesTo(nb.tags["image"]) = None
                     \/ ~Decodes(ResolvesTo(nb.tags["image"]).value)
              /\ RefLines(nb) # {} =>
                     \/ ~Exists(Normpath(LastReference(nb)))
                     \/ ~Decodes(DiskImages[Normpath(LastReference(nb))])

\* the front-matter mapping of a notebook: the block that opens its first
\* cell when that cell is markdown and the block is a mapping
FrontmatterOf(n) ==
    IF n.cells # <<>> /\ n.cells[1].cell_type = "markdown"
           /\ n.cells[1].frontmatter.kind = "mapping"
    THEN n.cells[1].frontmatter.map
    ELSE EmptyMap

AllKeys == {KnownKeys[i] : i \in 1..Len(KnownKeys)} \cup MetaKeys

Parsed == pc # "read" /\ meta # None /\ ExtractNotebookMetadata(doc).nb # None

---------------------------------------------------------------------------
(* collect_notebooks                                                       *)
(* The provenance fields of a record (org, repo, gitpuller) are string     *)
(* constructions that no branch reads; the records here carry the rest.    *)

RootDir == <<"/", "work", "/", "repo">>
NotebookDir == <<"notebooks">>
SubmoduleRoot == <<"external", "_", "notebooks">>

IgnoreFolders ==
    { <<"venv">>, <<".git">>, <<".git", "hub">>, <<"_", "build">>, <<"_", "data">>,
      <<"dist">> }

\* os.path.join(a, b)
Join(a, b) == a \o <<"/">> \o b

\* sub in s
Contains(s, sub) ==
    \E i \in 1..(Len(s) - Len(sub) + 1) : SubSeq(s, i, i + Len(sub) - 1) = sub

\* s.endswith(suffix)
EndsWith(s, suffix) ==
    Len(s) >= Len(suffix) /\ SubSeq(s, Len(s) - Len(suffix) + 1, Len(s)) = suffix

\* os.path.splitext(file)[0]
Splitext(file) ==
    IF file # <<>> /\ file[Len(file)] \in {".ipynb", ".md"}
    THEN SubSeq(file, 1, Len(file) - 1)
    ELSE file

\* the catalog record of one notebook
Record(m, n, img, rel_path, file, source) ==
    LET header == ExtractTitleFromFirstHeader(n)
    IN  [title |-> IF "title" \in DOMAIN m THEN m["title"]
                   ELSE IF header # None /\ header.value # <<>> THEN header.value
                   ELSE Replace(Splitext(file), <<"_">>, <<" ">>),
         description |-> IF "description" \in DOMAIN m THEN m["description"] ELSE <<>>,
         metadata |-> m,
         image |-> img.ret,
         link |-> MystUrlSanitation(Replace(rel_path, <<".ipynb">>, <<>>)),
         source |-> source,
         path |-> rel_path]

\* the body of the loop over the files: what it raises ("none": nothing),
\* the record it appends and the preview it writes
Visit(d, rel_path, file, source) ==
    LET r == ExtractNotebookMetadata(d)
        n == IF r.nb # None THEN r.nb.value ELSE d.nb
        img == ExtractImageWithFallback(n, rel_path, TargetWidth)
    IN  IF r.nb = None /\ ~d.readable
        THEN [error |-> "nbformat.read", record |-> None, saved |-> None]
        ELSE IF img.raised
        THEN [error |-> "extract_image_with_fallback", record |-> None, saved |-> None]
        ELSE IF r.meta.type # "dict"
        THEN [error |-> "meta.get", record |-> None, saved |-> img.saved]
        ELSE [error |-> "none",
              record |-> Some(Record(r.meta.map, n, img, rel_path, file, source)),
              saved |-> img.saved]

\* image.save(output_path): the file of that name is replaced
Save(files, saved) ==
    IF saved = None THEN files
    ELSE [name \in DOMAIN files \cup {saved.value.name} |->
             IF name = saved.value.name THEN saved.value ELSE files[name]]

---------------------------------------------------------------------------
(* A run of collect_notebooks over a bounded tree                          *)

MaxLocal == 2
MaxSub == 1

Entry(dir, file) == [dir |-> dir, file |-> file]

LocalEntries ==
    { Entry(NotebookDir, <<"a", ".ipynb">>),
      Entry(Join(NotebookDir, <<"a">>), <<"b", ".ipynb">>),
      Entry(NotebookDir, <<"a", "_", "b", ".ipynb">>),
      Entry(Join(NotebookDir, <<"venv">>), <<"a", ".ipynb">>),
      Entry(Join(NotebookDir, <<"dist", "ance">>), <<"a", ".ipynb">>),
      Entry(Join(Join(NotebookDir, <<"a">>), <<"_", "build">>), <<"b", ".ipynb">>),
      Entry(NotebookDir, <<"readme", ".md">>) }

SubmodulePath == Join(Join(SubmoduleRoot, <<"g">>), <<"r">>)

SubmoduleEntries ==
    { Entry(SubmodulePath, <<"c", ".ipynb">>),
      Entry(Join(SubmodulePath, <<".git">>), <<"c", ".ipynb">>),
      Entry(SubmodulePath, <<"notes", ".md">>) }

\* the orders in which a walk can yield at most n of the files of S
Walks(S, n) ==
    {w \in SeqsUpTo(S, n) : \A i, j \in 1..Len(w) : i # j => w[i] # w[j]}

T == <<"t">>
HeadingT == <<"#", " ", "t">>

CatalogDocs ==
    { NotebookFile(FALSE, Notebook(EmptyTags, <<>>)),
      NotebookFile(TRUE, Notebook([k \in {"title", "image"} |->
                                      IF k = "title" THEN T ELSE <<"A">>],
                                  <<MarkdownCell(NoFrontmatter, <<HeadingT>>)>>)),
      NotebookFile(TRUE, Notebook(EmptyTags,
                                  <<MarkdownCell(FrontmatterMalformed, <<HeadingT>>),
                                    CodeCell(CodeSource, <<Png(<<"P1">>)>>)>>)),
      NotebookFile(TRUE, Notebook(EmptyTags, <<CodeCell(CodeSource, <<Png(<<"PX">>)>>)>>)),
      NotebookFile(TRUE, Notebook(EmptyTags, <<MarkdownCell(NoFrontmatter, <<T>>)>>)),
      NotebookFile(TRUE, Notebook(EmptyTags,
                                  <<MarkdownCell(FrontmatterSequence, <<>>)>>)) }

Init ==
    /\ pc = "git"
    /\ error = "none"
    /\ \E l \in Walks(LocalEntries, MaxLocal), s \in Walks(SubmoduleEntries, MaxSub) :
           tree = [local |-> l, sub |-> s]
    /\ todo = <<>>
    /\ catalog = <<>>
    /\ previews = EmptyMap
    /\ doc = None /\ nb = None /\ meta = None /\ image = None /\ title = None
    /\ url = None /\ cut_url = None

\* git_url = get_git_remote_info(ROOT_DIR)["url"]: when git fails the
\* handler's return reads url, which was never bound
GetGitRemoteInfo ==
    /\ pc = "git"
    /\ \E git_succeeds \in BOOLEAN :
           IF git_succeeds
           THEN pc' = "local" /\ todo' = tree.local /\ error' = "none"
           ELSE pc' = "raised" /\ todo' = todo /\ error' = "get_git_remote_info"
    /\ UNCHANGED <<tree, catalog, previews, resolverVars, slugVars>>

\* the effect of the loop body on the run
Step(v) ==
    /\ previews' = Save(previews, v.saved)
    /\ error' = v.error
    /\ IF v.error = "none"
       THEN catalog' = Append(catalog, v.record.value) /\ pc' = pc
       ELSE catalog' = catalog /\ pc' = "raised"

\* one file of os.walk(local_path)
WalkLocal ==
    /\ pc = "local"
    /\ todo # <<>>
    /\ todo' = Tail(todo)
    /\ LET dirpath == Join(RootDir, todo[1].dir)
           file == todo[1].file
       IN  IF \/ \E ignored \in IgnoreFolders : Contains(dirpath, ignored)
              \/ ~EndsWith(file, <<".ipynb">>)
           THEN UNCHANGED <<pc, error, catalog, previews>>
           ELSE \E d \in CatalogDocs :
                    Step(Visit(d, Join(todo[1].dir, file), file, "local"))
    /\ UNCHANGED <<tree, resolverVars, slugVars>>

EndLocal ==
    /\ pc = "local"
    /\ todo = <<>>
    /\ pc' = "submodules"
    /\ todo' = tree.sub
    /\ UNCHANGED <<error, tree, catalog, previews, resolverVars, slugVars>>

\* one file of os.walk(sub_path)
WalkSubmodule ==
    /\ pc = "submodules"
    /\ todo # <<>>
    /\ todo' = Tail(todo)
    /\ LET file == todo[1].file
       IN  IF ~EndsWith(file, <<".ipynb">>)
           THEN UNCHANGED <<pc, error, catalog, previews>>
           ELSE \E d \in CatalogDocs :
                    Step(Visit(d, Join(todo[1].dir, file), file, "submodule"))
    /\ UNCHANGED <<tree, resolverVars, slugVars>>

\* return catalog
Return ==
    /\ pc = "submodules"
    /\ todo = <<>>
    /\ pc' = "done"
    /\ UNCHANGED <<error, tree, todo, catalog, previews, resolverVars, slugVars>>

Next == GetGitRemoteInfo \/ WalkLocal \/ EndLocal \/ WalkSubmodule \/ Return

Spec == Init /\ [][Next]_vars

\* C1: no notebook that the parsing library cannot read ends the run: it
\* gets a record and the walk goes on.
C1_UnreadableIsolated == error # "nbformat.read"

RECURSIVE Split(_)
\* the "/"-delimited segments of a path
Split(path) ==
    LET k == IndexOf(path, "/", 1)
    IN  IF k = 0 THEN <<path>>
        ELSE <<SubSeq(path, 1, k - 1)>> \o Split(SubSeq(path, k + 1, Len(path)))

\* a notebook none of whose directories is named as an ignored folder
Eligible(e) ==
    /\ EndsWith(e.file, <<".ipynb">>)
    /\ \A i \in 1..Len(Split(e.dir)) : Split(e.dir)[i] \notin IgnoreFolders

PathOf(e) == Join(e.dir, e.file)

\* C9: the catalog returned holds exactly one record, in discovery order,
\* for each .ipynb file of the two trees that has no ignored directory on
\* its path, and none for a file under such a directory.
C9_ExactlyTheEligible ==
    pc = "done" =>
        LET found == SelectSeq(tree.local \o tree.sub, Eligible)
        IN  /\ Len(catalog) = Len(found)
            /\ \A i \in 1..Len(found) : catalog[i].path = PathOf(found[i])

\* C10: two notebooks that both resolved an image have distinct preview
\* files, and each record's preview was made from its own notebook.
C10_DistinctPreviews ==
    pc = "done" =>
        /\ \A i, j \in 1..Len(catalog) :
               (i # j /\ catalog[i].image # None /\ catalog[j].image # None)
                   => catalog[i].image # catalog[j].image
        /\ \A i \in 1..Len(catalog) :
               catalog[i].image # None =>
                   \E name \in DOMAIN previews :
                       /\ catalog[i].image = Some(ReturnedPath(previews[name]))
                       /\ previews[name].owner = catalog[i].path

=============================================================================
